---------------------------- MODULE Spec2Model ----------------------------
(***************************************************************************)
(* A model of my_first_bot.py, the GameDeals multi-store Telegram bot:     *)
(* the in-memory response cache, the SQLite tables subscribers and         *)
(* last_offers, the Epic, GOG and Steam adapters, the job                  *)
(* check_free_games_job and the handler compare_command.                   *)
(*                                                                         *)
(* Text is a sequence of one-character strings (<<"$", "0">> is "$0"), so  *)
(* that `in`, ==, upper() and str() are computed and not assumed.  A       *)
(* character outside ASCII is written as a token ("emdash", "CYR_BE").     *)
(* A coroutine is a process whose pc stands at one of its awaits.          *)
(***************************************************************************)
EXTENDS Integers, Sequences, FiniteSets, TLC

(***************************** bounds *************************************)
\* the clock runs from 0 to MaxTime seconds, in steps of TickStep seconds
MaxTime == 1200
TickStep == 600
\* the number of job runs that are started
MaxRuns == 3

(**************************** constants ***********************************)
CACHE_TTL == 60 * 5
LIST_TTL == 60 * 10
STEAM_TTL == 60 * 5
EPIC_CAP == 10
GOG_CAP == 15

\* the chats that write to the bot
Chats == {1, 2}
RunIds == {1, 2}
Stores == {"epic", "gog"}

(****************************** text **************************************)
Lower == <<"a","b","c","d","e","f","g","h","i","j","k","l","m",
           "n","o","p","q","r","s","t","u","v","w","x","y","z",
           "cyr_be","cyr_ie","cyr_es","cyr_pe","cyr_el","cyr_a","cyr_te">>
UpperL == <<"A","B","C","D","E","F","G","H","I","J","K","L","M",
            "N","O","P","Q","R","S","T","U","V","W","X","Y","Z",
            "CYR_BE","CYR_IE","CYR_ES","CYR_PE","CYR_EL","CYR_A","CYR_TE">>

\* str.upper() of one character
UpperChar(c) ==
    IF \E i \in 1..Len(Lower) : Lower[i] = c
    THEN UpperL[CHOOSE i \in 1..Len(Lower) : Lower[i] = c]
    ELSE c

\* str.upper()
Upper(s) == [i \in 1..Len(s) |-> UpperChar(s[i])]

\* sub in s, for two strings
Contains(s, sub) ==
    \E i \in 0..(Len(s) - Len(sub)) :
        \A j \in 1..Len(sub) : s[i + j] = sub[j]

\* str.lower() of one character
LowerChar(c) ==
    IF \E i \in 1..Len(UpperL) : UpperL[i] = c
    THEN Lower[CHOOSE i \in 1..Len(UpperL) : UpperL[i] = c]
    ELSE c

\* str.lower()
ToLower(s) == [i \in 1..Len(s) |-> LowerChar(s[i])]

\* str(n) of a non-negative int: its decimal digits
Digits == <<"0","1","2","3","4","5","6","7","8","9">>
RECURSIVE Str(_)
Str(n) == IF n < 10 THEN <<Digits[n + 1]>>
          ELSE Str(n \div 10) \o <<Digits[(n % 10) + 1]>>

\* SQLite, comparing the TEXT column offer_id with an INTEGER parameter,
\* applies the column's TEXT affinity to the parameter: its decimal text
RECURSIVE SqlTextAffinity(_)
SqlTextAffinity(n) ==
    IF n < 10 THEN <<Digits[n + 1]>>
    ELSE SqlTextAffinity(n \div 10) \o <<Digits[(n % 10) + 1]>>

\* the string literals of the source
S_0 == <<"0">>
S_Free == <<"F","r","e","e">>
S_000 == <<"0",".","0","0">>
S_FREE == <<"F","R","E","E">>
S_BESPLAT == <<"CYR_BE","CYR_IE","CYR_ES","CYR_PE","CYR_EL","CYR_A","CYR_TE">>
S_D0 == <<"$","0">>
S_Dash == <<"emdash">>
S_Unknown == <<"U","n","k","n","o","w","n">>
S_Empty == <<>>

\* f"${final/100:.2f}" for a price of `final` cents
Money(final) ==
    <<"$">> \o Str(final \div 100) \o <<".">>
            \o <<Digits[((final % 100) \div 10) + 1], Digits[(final % 10) + 1]>>

\* ", ".join and "\n\n".join are kept as the sequence of the parts
Range(s) == {s[i] : i \in 1..Len(s)}


(*********************** the upstream responses ***************************)
\* An element of the Epic feed.  A key that is missing and a key that is
\* None or "" are the same thing to `g.get(k) or ...`: both are <<>>.
\* promotionalOffers and upcomingPromotionalOffers list the truth value of
\* each group; price is "ok", "missing" (no 'price' key) or "null".
EpicFree ==
    [id |-> <<"e","1">>, title |-> <<"F","o","o">>, productSlug |-> <<"f","o","o">>,
     promotionalOffers |-> <<TRUE>>, upcomingPromotionalOffers |-> <<>>,
     price |-> "ok", discountPrice |-> S_0]
EpicFreeRenamed ==
    [id |-> <<"e","1">>, title |-> <<"F","o","o","2">>, productSlug |-> <<"f","o","o">>,
     promotionalOffers |-> <<>>, upcomingPromotionalOffers |-> <<TRUE>>,
     price |-> "ok", discountPrice |-> S_Free]
EpicPaid ==
    [id |-> <<"e","2">>, title |-> <<"B","a","r">>, productSlug |-> <<"b","a","r">>,
     promotionalOffers |-> <<TRUE>>, upcomingPromotionalOffers |-> <<>>,
     price |-> "ok", discountPrice |-> <<"$","1","9",".","9","9">>]
EpicNoPromo ==
    [id |-> <<"e","3">>, title |-> <<"Q","u","x">>, productSlug |-> <<"q","u","x">>,
     promotionalOffers |-> <<FALSE>>, upcomingPromotionalOffers |-> <<>>,
     price |-> "ok", discountPrice |-> S_0]

\* an element whose discount price renders as "$0"
EpicDollar ==
    [id |-> <<"e","4">>, title |-> <<"D","o","l">>, productSlug |-> <<"d","o","l">>,
     promotionalOffers |-> <<TRUE>>, upcomingPromotionalOffers |-> <<>>,
     price |-> "ok", discountPrice |-> S_D0]

\* an element whose 'price' is null: g.get('price', {}).get raises
EpicBad ==
    [id |-> <<"e","5">>, title |-> <<"B","a","d">>, productSlug |-> <<"b","a","d">>,
     promotionalOffers |-> <<TRUE>>, upcomingPromotionalOffers |-> <<>>,
     price |-> "null", discountPrice |-> <<>>]

\* the element lists the Epic feed answers with
EpicFeeds == { <<EpicFree>>, <<EpicNoPromo>>, <<EpicPaid, EpicFreeRenamed, EpicDollar>> }

\* A product of the GOG feed: price is "none" (no price payload), "ok" or
\* "bad" (a price that is no dict, on which price.get raises).
GogFree ==
    [id |-> 7, title |-> <<"Z","i","p">>, url |-> <<"/","z","i","p">>,
     price |-> "none", amount |-> <<>>, currency |-> <<>>]
GogPaid ==
    [id |-> 12, title |-> <<"Z","a","p">>, url |-> <<"/","z","a","p">>,
     price |-> "ok", amount |-> <<"9",".","9","9">>, currency |-> <<"U","S","D">>]

GogNoTitle ==
    [id |-> 3, title |-> <<>>, url |-> <<"/","n","o">>,
     price |-> "none", amount |-> <<>>, currency |-> <<>>]
GogBad ==
    [id |-> 4, title |-> <<"Z","e","d">>, url |-> <<"/","z","e","d">>,
     price |-> "bad", amount |-> <<>>, currency |-> <<>>]

\* the product lists the GOG feed answers with
GogFeeds == { <<GogPaid, GogFree>> }

\* what fetch_json returns: None (ok = FALSE) on any exception, else the JSON
NoData == [ok |-> FALSE, items |-> <<>>]
Data(items) == [ok |-> TRUE, items |-> items]

fetch_json(feeds) == {NoData} \cup {Data(f) : f \in feeds}

(***************************** adapters ***********************************)
\* any(l) for a list of truth values
AnyTrue(l) == \E i \in 1..Len(l) : l[i]

\* a or b, for two strings
Or(a, b) == IF a # <<>> THEN a ELSE b

\* the condition of lines 136-137
EpicQualifies(g) ==
    \/ (g.promotionalOffers # <<>> /\ AnyTrue(g.promotionalOffers))
    \/ (g.upcomingPromotionalOffers # <<>> /\ AnyTrue(g.upcomingPromotionalOffers))

\* the element raises inside the try: g.get('price', {}) is None
EpicRaises(g) == EpicQualifies(g) /\ g.price = "null"

\* the dict appended at lines 145-153
EpicOffer(g) ==
    LET title == Or(Or(g.title, g.productSlug), S_Unknown)
    IN  [title |-> title,
         id |-> Or(g.id, title),
         discount_price |-> IF g.price = "ok" THEN g.discountPrice ELSE S_Dash,
         url |-> <<"https://store.epicgames.com/p/">> \o g.productSlug,
         store |-> "epic"]

\* the loop of lines 134-155 from element i on, with out so far; the except
\* of line 156 ends it at the first element that raises
RECURSIVE EpicLoop(_, _, _)
EpicLoop(elems, i, out) ==
    IF i > Len(elems) THEN out
    ELSE IF EpicRaises(elems[i]) THEN out
    ELSE IF ~EpicQualifies(elems[i]) THEN EpicLoop(elems, i + 1, out)
    ELSE LET out2 == Append(out, EpicOffer(elems[i]))
         IN  IF Len(out2) >= EPIC_CAP THEN out2
             ELSE EpicLoop(elems, i + 1, out2)

\* the dict appended at lines 186-194
GogOffer(p) ==
    [title |-> p.title,
     id |-> p.id,
     discount_price |-> IF p.price = "none" THEN S_0 ELSE p.amount \o p.currency,
     url |-> <<"https://www.gog.com">> \o p.url,
     store |-> "gog"]

GogRaises(p) == p.price = "bad"

\* the loop of lines 177-194 over products[:15]
RECURSIVE GogLoop(_, _, _)
GogLoop(products, i, out) ==
    IF i > Len(products) \/ i > GOG_CAP THEN out
    ELSE IF GogRaises(products[i]) THEN out
    ELSE GogLoop(products, i + 1, Append(out, GogOffer(products[i])))

\* lines 131-157 and 174-196: the list an adapter builds from the JSON
Normalize(store, items) ==
    IF store = "epic" THEN EpicLoop(items, 1, <<>>) ELSE GogLoop(items, 1, <<>>)

Feeds(store) == IF store = "epic" THEN EpicFeeds ELSE GogFeeds

\* the cache key of an adapter
CacheKey(store) == IF store = "epic" THEN <<"epic_top">> ELSE <<"gog_top">>

(************************** get_steam_games *******************************)
\* An item of the Steam search result.  price is "missing" (no 'price' key,
\* None or {}), "nofinal" (a dict without 'final'), "final" (a dict with
\* 'final', in cents) or "bad" (a value that is no dict, on which
\* price_info.get raises).
SteamItem(name, id, is_free, price, final) ==
    [name |-> name, id |-> id, is_free |-> is_free, price |-> price, final |-> final]

\* lines 226-235: price_text
SteamPriceText(it) ==
    IF it.price = "final" THEN Money(it.final)
    ELSE IF it.is_free THEN S_Free ELSE S_Dash

\* the dict appended at lines 237-245
SteamOffer(it) ==
    [title |-> it.name,
     id |-> it.id,
     discount_price |-> SteamPriceText(it),
     url |-> <<"https://store.steampowered.com/app/">> \o Str(it.id) \o <<"/">>,
     store |-> "steam"]

SteamRaises(it) == it.price = "bad"

\* the loop of lines 223-245 over items[:limit]; the except of line 246 ends
\* it at the first item that raises
RECURSIVE SteamLoop(_, _, _, _)
SteamLoop(items, limit, i, out) ==
    IF i > Len(items) \/ i > limit THEN out
    ELSE IF SteamRaises(items[i]) THEN out
    ELSE SteamLoop(items, limit, i + 1, Append(out, SteamOffer(items[i])))

\* the cache key of line 207
SteamKey(query, limit) == <<"steam", query, limit>>

(************************* free classification ****************************)
\* line 386
IsFreeEpic(dp) ==
    \/ dp \in {S_0, S_Free, S_000, S_FREE}
    \/ Contains(Upper(dp), S_FREE)
    \/ Contains(Upper(dp), S_BESPLAT)

\* lines 394-395
IsFreeGog(dp) ==
    \/ dp = S_D0
    \/ dp = S_Free
    \/ Contains(Upper(dp), S_FREE)
    \/ Contains(dp, S_0)

IsFree(store, dp) == IF store = "epic" THEN IsFreeEpic(dp) ELSE IsFreeGog(dp)

(***************************** the cache **********************************)
\* CACHE is a dict: a function whose domain is the set of keys stored.
\* What cache_get returns: None is [hit |-> FALSE, data |-> <<>>].
None == [hit |-> FALSE, data |-> <<>>]
Some(data) == [hit |-> TRUE, data |-> data]

\* a bug: >= for >
Expired_ge(t, expires) == t >= expires

\* line 48: datetime.utcnow() > expires
Expired(t, expires) == t > expires

\* the value cache_get returns (a stored tuple is never falsy)
cache_get(C, key, t) ==
    IF key \notin DOMAIN C THEN None
    ELSE IF Expired(t, C[key].expires) THEN None
    ELSE Some(C[key].data)

\* the store cache_get leaves
cache_get_store(C, key, t) ==
    IF key \in DOMAIN C /\ Expired(t, C[key].expires)
    THEN [k \in DOMAIN C \ {key} |-> C[k]]
    ELSE C

\* a bug: a put on a key that is there keeps the entry
cache_set_keep(C, key, data, ttl, t) ==
    IF key \in DOMAIN C THEN C
    ELSE [k \in DOMAIN C \cup {key} |->
            IF k = key THEN [expires |-> t + ttl, data |-> data] ELSE C[k]]

\* the store cache_set leaves
cache_set(C, key, data, ttl, t) ==
    [k \in DOMAIN C \cup {key} |->
        IF k = key THEN [expires |-> t + ttl, data |-> data] ELSE C[k]]

\* `if cached:` of lines 119, 165, 209
Truthy(cached) == cached.hit /\ cached.data # <<>>

(**************************** the database ********************************)
\* subscribers: chat_id -> added_at; last_offers: <<store, offer_id>> -> title

\* a bug: INSERT OR REPLACE
add_subscriber_replace(S, chat_id, t) ==
    [c \in DOMAIN S \cup {chat_id} |-> IF c = chat_id THEN t ELSE S[c]]

\* INSERT OR IGNORE INTO subscribers
add_subscriber(S, chat_id, t) ==
    IF chat_id \in DOMAIN S THEN S
    ELSE [c \in DOMAIN S \cup {chat_id} |-> IF c = chat_id THEN t ELSE S[c]]

\* DELETE FROM subscribers WHERE chat_id = ?
remove_subscriber(S, chat_id) == [c \in DOMAIN S \ {chat_id} |-> S[c]]

\* SELECT chat_id FROM subscribers: the rows in rowid (chat_id) order
RECURSIVE SortedSeq(_)
SortedSeq(set) ==
    IF set = {} THEN <<>>
    ELSE LET m == CHOOSE x \in set : \A y \in set : x <= y
         IN  <<m>> \o SortedSeq(set \ {m})

list_subscribers(S) == SortedSeq(DOMAIN S)

\* SELECT 1 FROM last_offers WHERE store=? AND offer_id=?
offer_exists(L, store, offer_id) == <<store, offer_id>> \in DOMAIN L

\* a bug: INSERT OR REPLACE
save_offer_replace(L, store, offer_id, title) ==
    [k \in DOMAIN L \cup {<<store, offer_id>>} |->
        IF k = <<store, offer_id>> THEN title ELSE L[k]]

\* a bug: title and offer_id bound the other way round
save_offer_swapped(L, store, offer_id, title) ==
    IF <<store, title>> \in DOMAIN L THEN L
    ELSE [k \in DOMAIN L \cup {<<store, title>>} |->
            IF k = <<store, title>> THEN offer_id ELSE L[k]]

\* INSERT OR IGNORE INTO last_offers
save_offer(L, store, offer_id, title) ==
    IF <<store, offer_id>> \in DOMAIN L THEN L
    ELSE [k \in DOMAIN L \cup {<<store, offer_id>>} |->
            IF k = <<store, offer_id>> THEN title ELSE L[k]]

\* a bug: the title looked up
LookupId_title(store, g) == g.title

\* the offer_id the job looks up: g['id'] (line 387, 396)
LookupId(store, g) == IF store = "epic" THEN g.id ELSE SqlTextAffinity(g.id)

\* the offer_id the job saves: g['id'] (line 389), str(g['id']) (line 398)
SaveId(store, g) == IF store = "epic" THEN g.id ELSE Str(g.id)

\* the notice appended at lines 390, 399
Notice(store, g) == [store |-> store, title |-> g.title, url |-> g.url]


(****************************** the state *********************************)
VARIABLES
    now,            \* datetime.utcnow(), in seconds
    CACHE,          \* the dict CACHE
    subscribers,    \* the table subscribers
    last_offers,    \* the table last_offers
    pc,             \* pc[r]: the await run r of check_free_games_job stands at
    offers,         \* offers[r].epic, offers[r].gog: the locals epic and gog
    idx,            \* idx[r]: the position of g in the list being looped over
    new_messages,   \* new_messages[r]
    subs,           \* subs[r]
    si,             \* si[r]: the position of chat_id in subs
    \* what has happened, kept for the properties
    runNo,          \* the number of runs started
    prevObs,        \* the offer sets the run before the current one observed
    written,        \* written[r]: the keys run r has inserted
    batchKeys,      \* batchKeys[r]: the keys of the notices in new_messages[r]
    attempts,       \* attempts[r]: the send_message calls of run r: [chat_id, text, ok]
    fanoutLedger,   \* fanoutLedger[r]: last_offers when run r loaded subs
    batchCount,     \* batchCount[key]: the notices appended for key, in all runs
    unsent,         \* the keys inserted while there were subscribers, whose
                    \* notice no send_message call has carried yet
    owed,           \* owed[key]: the subscribers the run that inserted key
                    \* loaded and has not called send_message for
    open,           \* the keys inserted by a run that has not returned
    ignoredSave,    \* a save_offer found its key present, with another title
    hadEntry,       \* hadEntry[r]: the adapter run r is in found, when it was
                    \* entered, an entry of its key that had not expired
    lastPut,        \* lastPut[key]: the last cache_set of key: [time, ttl, data]
    failed,         \* failed[r]: the stores whose request failed in run r
    \* compare_command
    upstream,       \* upstream[s]: the list the server of source s answers with
    query,          \* the text after /compare
    cpc,            \* the await compare_command stands at
    found,          \* found[s]: the locals steam, epic and gog
    reply,          \* reply[s]: s0, e0 and g0, each no offer or one
    calls,          \* the number of /compare commands handled
    cfetch,         \* the sources this call has sent a request to
    cfail,          \* the sources whose request failed in this call
    prevFail        \* the sources whose request failed in the call before

dbVars == <<subscribers, last_offers>>
runVars == <<pc, offers, idx, new_messages, subs, si>>
histVars == <<runNo, prevObs, written, batchKeys, attempts, fanoutLedger, batchCount,
              unsent, owed, open, ignoredSave, hadEntry, lastPut, failed>>
cmpVars == <<upstream, query, cpc, found, reply, calls, cfetch, cfail, prevFail>>
vars == <<now, CACHE, subscribers, last_offers, pc, offers, idx, new_messages,
          subs, si, runNo, prevObs, written, batchKeys, attempts, fanoutLedger,
          batchCount, unsent, owed, open, ignoredSave, hadEntry, lastPut, failed,
          upstream, query, cpc, found, reply, calls, cfetch, cfail, prevFail>>

Empty == [x \in {} |-> 0]

\* the three sources, in the order compare_command asks them (lines 278-280)
Sources == <<"steam", "epic", "gog">>
COMPARE_LIMIT == 3
NoLists == [s \in Range(Sources) |-> <<>>]
NoReply == [s \in Range(Sources) |-> {}]

\* no /compare has come in; the servers answer with u, the text will be q
CmpIdle(u, q) ==
    /\ upstream = u
    /\ query = q
    /\ cpc = <<"idle">>
    /\ found = NoLists
    /\ reply = NoReply
    /\ calls = 0
    /\ cfetch = {}
    /\ cfail = {}
    /\ prevFail = {}

SteamFooBar(is_free, price) ==
    SteamItem(<<"F","o","o"," ","B","a","r">>, 10, is_free, price, 999)
SteamBad == SteamItem(<<"F","o","o","l">>, 11, FALSE, "bad", 0)

DefaultUpstream ==
    [steam |-> <<SteamFooBar(TRUE, "missing")>>, epic |-> <<EpicFree>>, gog |-> <<GogPaid, GogFree>>]
DefaultQuery == <<"f","O","O">>
NoObs == [valid |-> FALSE, epic |-> {}, gog |-> {}]
PcIdle == <<"idle">>
PcDone == <<"done">>

Init ==
    /\ now = 0
    /\ CACHE = Empty
    /\ subscribers = Empty
    /\ last_offers = Empty
    /\ pc = [r \in RunIds |-> PcIdle]
    /\ offers = [r \in RunIds |-> [epic |-> <<>>, gog |-> <<>>]]
    /\ idx = [r \in RunIds |-> 1]
    /\ new_messages = [r \in RunIds |-> <<>>]
    /\ subs = [r \in RunIds |-> <<>>]
    /\ si = [r \in RunIds |-> 1]
    /\ runNo = 0
    /\ prevObs = NoObs
    /\ written = [r \in RunIds |-> {}]
    /\ batchKeys = [r \in RunIds |-> {}]
    /\ attempts = [r \in RunIds |-> <<>>]
    /\ fanoutLedger = [r \in RunIds |-> Empty]
    /\ batchCount = Empty
    /\ unsent = {}
    /\ owed = Empty
    /\ open = {}
    /\ ignoredSave = FALSE
    /\ hadEntry = [r \in RunIds |-> FALSE]
    /\ lastPut = Empty
    /\ failed = [r \in RunIds |-> {}]
    /\ CmpIdle(DefaultUpstream, DefaultQuery)

\* f with key k set to v
Put(f, k, v) == [x \in DOMAIN f \cup {k} |-> IF x = k THEN v ELSE f[x]]

(****************************** the clock *********************************)
Tick ==
    /\ now + TickStep <= MaxTime
    /\ now' = now + TickStep
    /\ UNCHANGED <<cmpVars, CACHE, dbVars, runVars, histVars>>

(*************************** subscriptions ********************************)
\* subscribe_command: added_at is datetime.utcnow().isoformat(), kept as the
\* instant it writes down
Subscribe(chat_id) ==
    /\ subscribers' = add_subscriber(subscribers, chat_id, now)
    /\ UNCHANGED <<cmpVars, now, CACHE, last_offers, runVars, histVars>>

\* unsubscribe_command
Unsubscribe(chat_id) ==
    /\ subscribers' = remove_subscriber(subscribers, chat_id)
    /\ UNCHANGED <<cmpVars, now, CACHE, last_offers, runVars, histVars>>

(************************ check_free_games_job ****************************)
\* the offer sets run r observed
Obs(r) == [valid |-> TRUE, epic |-> Range(offers[r].epic), gog |-> Range(offers[r].gog)]

\* the ttl an adapter stores its list with (lines 159, 198, 249)
Ttl(store) == IF store = "steam" THEN STEAM_TTL ELSE LIST_TTL

\* the first position from i on of an offer the `if` of line 386 (395) lets in
RECURSIVE NextFree(_, _, _)
NextFree(store, list, i) ==
    IF i > Len(list) THEN i
    ELSE IF IsFree(store, list[i].discount_price) THEN i
    ELSE NextFree(store, list, i + 1)

\* a bug: no return on an empty batch (lines 401-403 left out)
LoopPoint_noreturn(offs, store, i, msgs) ==
    LET je == NextFree("epic", offs.epic, i)
        jg == NextFree("gog", offs.gog, IF store = "epic" THEN 1 ELSE i)
    IN  IF store = "epic" /\ je <= Len(offs.epic)
        THEN [pc |-> <<"exists", "epic">>, idx |-> je]
        ELSE IF jg <= Len(offs.gog) THEN [pc |-> <<"exists", "gog">>, idx |-> jg]
        ELSE [pc |-> <<"list_subs">>, idx |-> jg]

\* The job runs on without a break from one await to the next.  From position
\* i of the loop over `store`: the next await is the offer_exists of the next
\* free offer, in this list or in gog's, or else list_subscribers, unless the
\* batch is empty and the job returns (lines 401-403).
LoopPoint(offs, store, i, msgs) ==
    LET je == NextFree("epic", offs.epic, i)
        jg == NextFree("gog", offs.gog, IF store = "epic" THEN 1 ELSE i)
    IN  IF store = "epic" /\ je <= Len(offs.epic)
        THEN [pc |-> <<"exists", "epic">>, idx |-> je]
        ELSE IF jg <= Len(offs.gog) THEN [pc |-> <<"exists", "gog">>, idx |-> jg]
        ELSE IF msgs = <<>> THEN [pc |-> PcDone, idx |-> jg]
        ELSE [pc |-> <<"list_subs">>, idx |-> jg]

\* where the job stands once get_<store>_games has returned offs[store]
AfterGet(store, offs) ==
    IF store = "epic" THEN [pc |-> <<"get", "gog">>, idx |-> 1]
    ELSE LoopPoint(offs, "epic", 1, <<>>)

\* a bug: a request that failed raises through the adapter into the job,
\* whose except of line 416 ends the run
AfterFetch_raise(store, offs, ok) ==
    IF ok THEN AfterGet(store, offs) ELSE [pc |-> PcDone, idx |-> 1]

\* lines 112-114 and 128-129, 171-172: fetch_json returns None on a request
\* that failed, the adapter returns [], and the job goes on as after any return
AfterFetch(store, offs, ok) == AfterGet(store, offs)

\* the keys of runs that have not returned, once run r stands at p
Open(o, p, r) == IF p = PcDone THEN o \ written[r] ELSE o

\* f with v put in place of f[k] for every k of keys
PutAll(f, keys, v) == [x \in DOMAIN f \cup keys |-> IF x \in keys THEN v ELSE f[x]]

\* f with chat c taken out of f[k] for every k of keys
Without(f, keys, c) ==
    [x \in DOMAIN f \cup keys |->
        IF x \in keys THEN (IF x \in DOMAIN f THEN f[x] \ {c} ELSE {}) ELSE f[x]]

\* line 376: the job queue starts a run
StartJob(r) ==
    /\ pc[r] \in {PcIdle, PcDone}
    /\ runNo < MaxRuns
    /\ runNo' = runNo + 1
    /\ prevObs' = IF pc[r] = PcDone THEN Obs(r) ELSE prevObs
    /\ pc' = [pc EXCEPT ![r] = <<"get", "epic">>]
    /\ offers' = [offers EXCEPT ![r] = [epic |-> <<>>, gog |-> <<>>]]
    /\ idx' = [idx EXCEPT ![r] = 1]
    /\ new_messages' = [new_messages EXCEPT ![r] = <<>>]
    /\ subs' = [subs EXCEPT ![r] = <<>>]
    /\ si' = [si EXCEPT ![r] = 1]
    /\ written' = [written EXCEPT ![r] = {}]
    /\ batchKeys' = [batchKeys EXCEPT ![r] = {}]
    /\ attempts' = [attempts EXCEPT ![r] = <<>>]
    /\ fanoutLedger' = [fanoutLedger EXCEPT ![r] = Empty]
    /\ failed' = [failed EXCEPT ![r] = {}]
    /\ UNCHANGED <<cmpVars, now, CACHE, dbVars, batchCount, unsent, owed, open,
                   ignoredSave, hadEntry, lastPut>>

\* lines 118-120, 164-166: the adapter is entered and reads the cache
GetGames(r, store) ==
    /\ pc[r] = <<"get", store>>
    /\ LET cached == cache_get(CACHE, CacheKey(store), now)
           offs == [offers[r] EXCEPT ![store] = cached.data]
           at == AfterGet(store, offs)
       IN  /\ CACHE' = cache_get_store(CACHE, CacheKey(store), now)
           /\ IF Truthy(cached)
              THEN /\ offers' = [offers EXCEPT ![r] = offs]
                   /\ pc' = [pc EXCEPT ![r] = at.pc]
                   /\ idx' = [idx EXCEPT ![r] = at.idx]
              ELSE /\ offers' = offers
                   /\ pc' = [pc EXCEPT ![r] = <<"fetch", store>>]
                   /\ idx' = idx
           /\ hadEntry' = [hadEntry EXCEPT ![r] = cached.hit /\ ~Truthy(cached)]
    /\ open' = Open(open, pc'[r], r)
    /\ UNCHANGED <<cmpVars, now, dbVars, new_messages, subs, si, runNo, prevObs, written,
                   batchKeys, attempts, fanoutLedger, batchCount, unsent, owed,
                   ignoredSave, lastPut, failed>>

\* lines 127-160, 170-199: fetch_json has returned
Fetched(r, store) ==
    /\ pc[r] = <<"fetch", store>>
    /\ \E data \in fetch_json(Feeds(store)) :
        LET out == IF data.ok THEN Normalize(store, data.items) ELSE <<>>
            offs == [offers[r] EXCEPT ![store] = out]
            at == AfterFetch(store, offs, data.ok)
        IN  /\ CACHE' = IF data.ok
                        THEN cache_set(CACHE, CacheKey(store), out, Ttl(store), now)
                        ELSE CACHE
            /\ lastPut' = IF data.ok
                          THEN Put(lastPut, CacheKey(store),
                                   [time |-> now, ttl |-> Ttl(store), data |-> out])
                          ELSE lastPut
            /\ offers' = [offers EXCEPT ![r] = offs]
            /\ pc' = [pc EXCEPT ![r] = at.pc]
            /\ idx' = [idx EXCEPT ![r] = at.idx]
            /\ failed' = [failed EXCEPT ![r] = IF data.ok THEN @ ELSE @ \cup {store}]
    /\ hadEntry' = [hadEntry EXCEPT ![r] = FALSE]
    /\ open' = Open(open, pc'[r], r)
    /\ UNCHANGED <<cmpVars, now, dbVars, new_messages, subs, si, runNo, prevObs, written,
                   batchKeys, attempts, fanoutLedger, batchCount, unsent, owed,
                   ignoredSave>>

\* lines 387-388, 396-397: offer_exists has returned
OfferExists(r, store) ==
    /\ pc[r] = <<"exists", store>>
    /\ LET g == offers[r][store][idx[r]]
           already == offer_exists(last_offers, store, LookupId(store, g))
           at == LoopPoint(offers[r], store, idx[r] + 1, new_messages[r])
       IN  IF already
           THEN /\ pc' = [pc EXCEPT ![r] = at.pc]
                /\ idx' = [idx EXCEPT ![r] = at.idx]
           ELSE /\ pc' = [pc EXCEPT ![r] = <<"save", store>>]
                /\ idx' = idx
    /\ open' = Open(open, pc'[r], r)
    /\ UNCHANGED <<cmpVars, now, CACHE, dbVars, offers, new_messages, subs, si, runNo,
                   prevObs, written, batchKeys, attempts, fanoutLedger, batchCount,
                   unsent, owed, ignoredSave, hadEntry, lastPut, failed>>

\* lines 389-390, 398-399: save_offer has returned, and the append
SaveOffer(r, store) ==
    /\ pc[r] = <<"save", store>>
    /\ LET g == offers[r][store][idx[r]]
           key == <<store, SaveId(store, g)>>
           fresh == key \notin DOMAIN last_offers
           msgs == Append(new_messages[r], Notice(store, g))
           at == LoopPoint(offers[r], store, idx[r] + 1, msgs)
       IN  /\ last_offers' = save_offer(last_offers, store, SaveId(store, g), g.title)
           /\ new_messages' = [new_messages EXCEPT ![r] = msgs]
           /\ pc' = [pc EXCEPT ![r] = at.pc]
           /\ idx' = [idx EXCEPT ![r] = at.idx]
           /\ batchKeys' = [batchKeys EXCEPT ![r] = @ \cup {key}]
           /\ batchCount' = Put(batchCount, key,
                                IF key \in DOMAIN batchCount THEN batchCount[key] + 1 ELSE 1)
           /\ written' = [written EXCEPT ![r] = IF fresh THEN @ \cup {key} ELSE @]
           /\ unsent' = IF fresh /\ DOMAIN subscribers # {} THEN unsent \cup {key}
                        ELSE unsent
           /\ owed' = IF fresh THEN Put(owed, key, {}) ELSE owed
           /\ open' = IF fresh THEN open \cup {key} ELSE open
           /\ ignoredSave' = (ignoredSave \/ (~fresh /\ last_offers[key] # g.title))
    /\ UNCHANGED <<cmpVars, now, CACHE, subscribers, offers, subs, si, runNo, prevObs,
                   attempts, fanoutLedger, hadEntry, lastPut, failed>>

\* lines 405-408: list_subscribers has returned
ListSubscribers(r) ==
    /\ pc[r] = <<"list_subs">>
    /\ LET rows == list_subscribers(subscribers)
       IN  /\ subs' = [subs EXCEPT ![r] = rows]
           /\ owed' = PutAll(owed, written[r], Range(rows))
           /\ pc' = [pc EXCEPT ![r] = IF rows = <<>> THEN PcDone ELSE <<"send">>]
    /\ open' = Open(open, pc'[r], r)
    /\ si' = [si EXCEPT ![r] = 1]
    /\ fanoutLedger' = [fanoutLedger EXCEPT ![r] = last_offers]
    /\ UNCHANGED <<cmpVars, now, CACHE, dbVars, offers, idx, new_messages, runNo, prevObs,
                   written, batchKeys, attempts, batchCount, unsent,
                   ignoredSave, hadEntry, lastPut, failed>>

\* a bug: every pass reads the table again
Recipient_reread(list, i) ==
    LET rows == list_subscribers(subscribers)
    IN  IF i <= Len(rows) THEN rows[i] ELSE list[i]

\* a bug: every pass sends to the first subscriber
Recipient_first(list, i) == list[1]

\* line 411: the chat_id of the i-th pass of the loop
Recipient(list, i) == list[i]

\* a bug: the try around the loop, so that a send that raises ends it
AfterSend_break(i, n, ok) == IF ok THEN i + 1 ELSE n + 1

\* lines 411-415: the pass the loop makes after one whose send was ok or raised
AfterSend(i, n, ok) == i + 1

\* a bug: the except takes back the entries W the run has inserted
OnDeliveryError_rollback(L, W) == [k \in DOMAIN L \ W |-> L[k]]

\* lines 414-415: what the except leaves of last_offers (it only logs)
OnDeliveryError(L, W) == L

\* lines 411-415: one send_message has returned (ok) or raised
SendMessage(r) ==
    /\ pc[r] = <<"send">>
    /\ si[r] <= Len(subs[r])
    /\ \E ok \in BOOLEAN :
        LET chat_id == Recipient(subs[r], si[r])
            j == AfterSend(si[r], Len(subs[r]), ok)
        IN  /\ attempts' = [attempts EXCEPT ![r] =
                    Append(@, [chat_id |-> chat_id, text |-> new_messages[r], ok |-> ok])]
            /\ unsent' = unsent \ batchKeys[r]
            /\ owed' = Without(owed, written[r] \cap DOMAIN owed, chat_id)
            /\ last_offers' = IF ok THEN last_offers
                              ELSE OnDeliveryError(last_offers, written[r])
            /\ si' = [si EXCEPT ![r] = j]
            /\ pc' = [pc EXCEPT ![r] = IF j > Len(subs[r]) THEN PcDone ELSE @]
    /\ open' = Open(open, pc'[r], r)
    /\ UNCHANGED <<cmpVars, now, CACHE, subscribers, offers, idx, new_messages, subs, runNo,
                   prevObs, written, batchKeys, batchCount, fanoutLedger, ignoredSave,
                   hadEntry, lastPut, failed>>

\* the awaits of a run, once started
JobSteps(r) ==
    \/ \E store \in Stores : GetGames(r, store)
    \/ \E store \in Stores : Fetched(r, store)
    \/ \E store \in Stores : OfferExists(r, store)
    \/ \E store \in Stores : SaveOffer(r, store)
    \/ ListSubscribers(r)
    \/ SendMessage(r)

\* the job queue runs one job at a time: a run starts when the one before
\* has returned
Next ==
    \/ Tick
    \/ \E c \in Chats : Subscribe(c)
    \/ \E c \in Chats : Unsubscribe(c)
    \/ StartJob(1)
    \/ JobSteps(1)

Spec == Init /\ [][Next]_vars

\* a job queue that lets two runs overlap: each of two workers makes one run
StartOverlapping(r) == pc[r] = PcIdle /\ StartJob(r)

NextOverlap ==
    \/ \E c \in Chats : Subscribe(c)
    \/ \E c \in Chats : Unsubscribe(c)
    \/ \E r \in RunIds : StartOverlapping(r)
    \/ \E r \in RunIds : JobSteps(r)

SpecOverlap == Init /\ [][NextOverlap]_vars

(*************************** compare_command ******************************)
\* the number of /compare commands handled
MaxCalls == 2

\* the lists the servers may hold, and the texts of the command
SteamUps ==
    {<<>>, <<SteamBad, SteamFooBar(TRUE, "missing")>>}
        \cup {<<SteamFooBar(f, p)>> : f \in BOOLEAN, p \in {"missing", "nofinal", "final"}}
EpicUps == {<<EpicFree>>, <<EpicBad, EpicFree>>, <<EpicPaid, EpicFreeRenamed, EpicFree>>}
GogUps == {<<GogPaid, GogFree>>, <<GogNoTitle, GogFree>>, <<GogBad, GogPaid>>}
Queries == {<<"f","O","O">>, <<"z">>}

\* lines 283-288: find_match, from position i on, with ql = q.lower()
RECURSIVE FindFrom(_, _, _)
FindFrom(list_, ql, i) ==
    IF i > Len(list_) THEN {}
    ELSE IF list_[i].title # <<>> /\ Contains(ToLower(list_[i].title), ql)
         THEN {list_[i]}
         ELSE FindFrom(list_, ql, i + 1)

\* a bug: the query taken as typed
find_match_typed(list_, q) == FindFrom(list_, q, 1)

find_match(list_, q) == FindFrom(list_, ToLower(q), 1)

\* line 290: steam[0] if steam else None
FirstOf(steam) == IF steam # <<>> THEN {steam[1]} ELSE {}

\* lines 290-292
Replies(lists, q) ==
    [s \in Range(Sources) |->
        IF s = "steam" THEN FirstOf(lists[s]) ELSE find_match(lists[s], q)]

\* the cache key of the adapter of source s in this call
CmpKey(s) == IF s = "steam" THEN SteamKey(query, COMPARE_LIMIT) ELSE CacheKey(s)

\* the list the adapter of source s builds from the JSON
NormalizeAny(s, items) ==
    IF s = "steam" THEN SteamLoop(items, COMPARE_LIMIT, 1, <<>>) ELSE Normalize(s, items)

\* lines 278-280: the await compare_command comes to once the adapter of
\* source s has returned
AfterAdapter(s) ==
    IF s = "steam" THEN <<"get", "epic">>
    ELSE IF s = "epic" THEN <<"get", "gog">>
    ELSE <<"done">>

\* lines 270-278: a /compare with a text has come in
CompareStart ==
    /\ cpc \in {<<"idle">>, <<"done">>}
    /\ calls < MaxCalls
    /\ calls' = calls + 1
    /\ cpc' = <<"get", "steam">>
    /\ found' = NoLists
    /\ reply' = NoReply
    /\ prevFail' = cfail
    /\ cfail' = {}
    /\ cfetch' = {}
    /\ UNCHANGED <<now, CACHE, dbVars, runVars, histVars, upstream, query>>

\* lines 118-120, 164-166, 208-210: an adapter is entered and reads the cache
CmpGet(s) ==
    /\ cpc = <<"get", s>>
    /\ LET cached == cache_get(CACHE, CmpKey(s), now)
       IN  /\ CACHE' = cache_get_store(CACHE, CmpKey(s), now)
           /\ IF Truthy(cached)
              THEN /\ found' = [found EXCEPT ![s] = cached.data]
                   /\ cpc' = AfterAdapter(s)
                   /\ cfetch' = cfetch
              ELSE /\ found' = found
                   /\ cpc' = <<"fetch", s>>
                   /\ cfetch' = cfetch \cup {s}
           /\ reply' = IF cpc' = <<"done">> THEN Replies(found', query) ELSE reply
    /\ UNCHANGED <<now, dbVars, runVars, histVars, upstream, query, calls, cfail, prevFail>>

\* a bug: the empty result of a failed fetch is stored
OnNoData_store(C, key, t) ==
    [k \in DOMAIN C \cup {key} |->
        IF k = key THEN [expires |-> t + CACHE_TTL, data |-> <<>>] ELSE C[k]]

\* what a failed fetch leaves of the cache (lines 128-129, 171-172, 217-218)
OnNoData(C, key, t) == C

\* lines 127-160, 170-199, 215-250: fetch_json has returned
CmpFetched(s) ==
    /\ cpc = <<"fetch", s>>
    /\ \E data \in fetch_json({upstream[s]}) :
        LET out == IF data.ok THEN NormalizeAny(s, data.items) ELSE <<>>
        IN  /\ CACHE' = IF data.ok THEN cache_set(CACHE, CmpKey(s), out, Ttl(s), now)
                        ELSE OnNoData(CACHE, CmpKey(s), now)
            /\ lastPut' = IF data.ok
                          THEN Put(lastPut, CmpKey(s), [time |-> now, ttl |-> Ttl(s), data |-> out])
                          ELSE lastPut
            /\ found' = [found EXCEPT ![s] = out]
            /\ cfail' = IF data.ok THEN cfail ELSE cfail \cup {s}
    /\ cpc' = AfterAdapter(s)
    /\ reply' = IF cpc' = <<"done">> THEN Replies(found', query) ELSE reply
    /\ UNCHANGED <<now, dbVars, runVars, runNo, prevObs, written, batchKeys, attempts,
                   fanoutLedger, batchCount, unsent, owed, open, ignoredSave, hadEntry,
                   failed, upstream, query, calls, cfetch, prevFail>>

InitCompare ==
    /\ now = 0
    /\ CACHE = Empty
    /\ subscribers = Empty
    /\ last_offers = Empty
    /\ pc = [r \in RunIds |-> PcIdle]
    /\ offers = [r \in RunIds |-> [epic |-> <<>>, gog |-> <<>>]]
    /\ idx = [r \in RunIds |-> 1]
    /\ new_messages = [r \in RunIds |-> <<>>]
    /\ subs = [r \in RunIds |-> <<>>]
    /\ si = [r \in RunIds |-> 1]
    /\ runNo = 0
    /\ prevObs = NoObs
    /\ written = [r \in RunIds |-> {}]
    /\ batchKeys = [r \in RunIds |-> {}]
    /\ attempts = [r \in RunIds |-> <<>>]
    /\ fanoutLedger = [r \in RunIds |-> Empty]
    /\ batchCount = Empty
    /\ unsent = {}
    /\ owed = Empty
    /\ open = {}
    /\ ignoredSave = FALSE
    /\ hadEntry = [r \in RunIds |-> FALSE]
    /\ lastPut = Empty
    /\ failed = [r \in RunIds |-> {}]
    /\ \E st \in SteamUps, ep \in EpicUps, gg \in GogUps, q \in Queries :
          CmpIdle([steam |-> st, epic |-> ep, gog |-> gg], q)

NextCompare ==
    \/ Tick
    \/ CompareStart
    \/ \E s \in Range(Sources) : CmpGet(s)
    \/ \E s \in Range(Sources) : CmpFetched(s)

SpecCompare == InitCompare /\ [][NextCompare]_vars

\* the job and /compare commands, handled by the one event loop
NextBoth ==
    \/ \E c \in Chats : Subscribe(c)
    \/ StartOverlapping(1)
    \/ JobSteps(1)
    \/ CompareStart
    \/ \E s \in Range(Sources) : CmpGet(s)
    \/ \E s \in Range(Sources) : CmpFetched(s)

SpecBoth == Init /\ [][NextBoth]_vars

(***************************** properties *********************************)
KeyE1 == <<"epic", <<"e","1">>>>
Instants == {i * TickStep : i \in 0..(MaxTime \div TickStep)}

\* the chats of the send_message calls of run r
Attempted(r) == {attempts[r][i].chat_id : i \in 1..Len(attempts[r])}

\* C1: a run that has returned, having observed from Epic and from GOG the
\* offer sets the run before it observed, has inserted no Ledger entry, has an
\* empty batch and has made no send_message call, whatever the subscribers are
C1_Idempotent ==
    (pc[1] = PcDone /\ prevObs.valid /\ prevObs = Obs(1)) =>
        /\ written[1] = {}
        /\ new_messages[1] = <<>>
        /\ attempts[1] = <<>>

\* the second of two runs on the same offers, one of them free and in the
\* Ledger, with a subscriber there
C1_Witness ==
    /\ pc[1] = PcDone /\ prevObs.valid /\ prevObs = Obs(1)
    /\ \E g \in prevObs.epic : IsFreeEpic(g.discount_price)
    /\ KeyE1 \in DOMAIN last_offers
    /\ DOMAIN subscribers # {}

\* C2, as claimed, in its weakest reading: every Ledger entry that was
\* inserted while there were subscribers has had its notice carried by a
\* send_message call
C2_Original == unsent \cap DOMAIN last_offers = {}

\* C2, amended: the run that inserted a Ledger entry appended the notice of
\* its offer to its batch, and once that run has returned it has called
\* send_message for every subscriber it loaded after its inserts
C2_Amended ==
    \A k \in DOMAIN last_offers :
        /\ k \in DOMAIN batchCount
        /\ k \notin open => (k \in DOMAIN owed /\ owed[k] = {})

\* a run has returned that inserted an entry and then sent to two subscribers
C2_Witness ==
    \E k \in DOMAIN last_offers :
        /\ k \in written[1] /\ k \notin open
        /\ Len(attempts[1]) = 2

\* C3: over the runs of the job, one after the other, the notice of a key is
\* appended to a batch at most once, and a run calls send_message at most
\* once for a chat: no chat is sent the notice of a key twice
C3_AtMostOnce ==
    /\ \A k \in DOMAIN batchCount : batchCount[k] <= 1
    /\ \A r \in RunIds : Cardinality(Attempted(r)) = Len(attempts[r])

\* the third run finds again a free offer that the second did not observe
\* and the first was notified of: it appends nothing for it
C3_Witness ==
    /\ runNo = 3 /\ pc[1] = PcDone
    /\ \E g \in Range(offers[1].epic) : g.id = KeyE1[2] /\ IsFreeEpic(g.discount_price)
    /\ prevObs.valid /\ \A g \in prevObs.epic : g.id # KeyE1[2]
    /\ KeyE1 \in DOMAIN last_offers
    /\ KeyE1 \notin batchKeys[1]
    /\ batchCount[KeyE1] = 1

\* C4: a step of the program leaves every Ledger entry there is in place,
\* with its title
C4_WriteOnce ==
    [][\A k \in DOMAIN last_offers :
            k \in DOMAIN last_offers' /\ last_offers'[k] = last_offers[k]]_vars

\* a save_offer has found its key there under another title, and a
\* send_message has raised
C4_Witness ==
    /\ ignoredSave
    /\ \E r \in RunIds : \E i \in 1..Len(attempts[r]) : ~attempts[r][i].ok

\* C5: a run that has returned with a batch and with subscribers loaded has
\* called send_message once for each of them, with the text of the batch
C5_FanOut ==
    \A r \in RunIds :
        (pc[r] = PcDone /\ new_messages[r] # <<>> /\ subs[r] # <<>>) =>
            /\ Len(attempts[r]) = Len(subs[r])
            /\ \A c \in Range(subs[r]) :
                 Cardinality({i \in 1..Len(attempts[r]) :
                     /\ attempts[r][i].chat_id = c
                     /\ attempts[r][i].text = new_messages[r]}) = 1

\* the send to the first of two subscribers raised and the run has returned
C5_Witness ==
    /\ pc[1] = PcDone /\ Len(subs[1]) = 2
    /\ Len(attempts[1]) = 2 /\ ~attempts[1][1].ok

\* C6: from the moment a run has loaded its subscribers, through its sends
\* and after it has returned, the Ledger is what it was at that moment
C6_LedgerKept ==
    \A r \in RunIds :
        (pc[r] \in {<<"send">>, PcDone} /\ subs[r] # <<>>) =>
            last_offers = fanoutLedger[r]

\* a run has returned, one of its sends raised, and its inserts are there
C6_Witness ==
    /\ pc[1] = PcDone /\ written[1] # {}
    /\ written[1] \subseteq DOMAIN last_offers
    /\ \E i \in 1..Len(attempts[1]) : ~attempts[1][i].ok

\* C7, as claimed: of two runs that overlap, at most one appends the notice
\* of a key to its batch
C7_CriticalSection == batchKeys[1] \cap batchKeys[2] = {}

\* C8: for a key whose last cache_set was at `time` with `ttl`, cache_get
\* returns the data of that cache_set up to time + ttl; after it, it returns
\* None and leaves the key out of the store
C8_CacheExpiry ==
    \A k \in DOMAIN lastPut :
        LET p == lastPut[k]
        IN  IF now <= p.time + p.ttl
            THEN cache_get(CACHE, k, now) = Some(p.data)
            ELSE /\ cache_get(CACHE, k, now) = None
                 /\ k \notin DOMAIN cache_get_store(CACHE, k, now)

\* a cache_get after the expiry has taken the entry out
C8_Witness ==
    \E k \in DOMAIN lastPut :
        /\ now > lastPut[k].time + lastPut[k].ttl
        /\ k \notin DOMAIN CACHE

\* C9, as claimed: an adapter that found, when entered, an entry of its key
\* that had not expired does not go on to fetch
C9_Shielded == \A r \in RunIds : ~hadEntry[r]

\* C10: subscribe of a member and unsubscribe of a non-member leave the
\* table as it is; after a subscribe (unsubscribe) a second one, at any
\* instant, leaves the table the first one left, added_at included
C10_Idempotent ==
    [][\A c \in Chats :
        /\ (Subscribe(c) /\ c \in DOMAIN subscribers) => subscribers' = subscribers
        /\ (Unsubscribe(c) /\ c \notin DOMAIN subscribers) => subscribers' = subscribers
        /\ Subscribe(c) =>
              \A t \in Instants : add_subscriber(subscribers', c, t) = subscribers'
        /\ Unsubscribe(c) => remove_subscriber(subscribers', c) = subscribers']_vars

\* a member whose added_at is before now: a subscribe would write another
C10_Witness == \E c \in DOMAIN subscribers : subscribers[c] < now

\* every free offer run r holds of `store` is in the Ledger; those the run
\* inserted are in its batch, and the batch went to every subscriber loaded
Diffed(r, store) ==
    \A i \in 1..Len(offers[r][store]) :
        LET g == offers[r][store][i]
            key == <<store, SaveId(store, g)>>
        IN  IsFree(store, g.discount_price) =>
              /\ key \in DOMAIN last_offers
              /\ key \in written[r] =>
                    /\ key \in batchKeys[r]
                    /\ Attempted(r) = Range(subs[r])

\* every list of GogFeeds gives offers, so that a run whose get_gog_games
\* has returned without a failed request holds a list of them
Asked(r, store) == store = "gog" => offers[r].gog # <<>>

\* C11: an adapter whose request failed has returned the empty list and its
\* caller has gone on: /compare has its reply from the lists of the three
\* adapters, and a run of the job in which one store failed has asked the
\* other store, inserted its free offers and sent the batch
C11_Resilient ==
    /\ \A s \in cfail : found[s] = <<>>
    /\ cpc = <<"done">> =>
          /\ \A s \in Range(Sources) \ cfail : found[s] # <<>>
          /\ reply = Replies(found, query)
    /\ \A s \in failed[1] : offers[1][s] = <<>>
    /\ (pc[1] = PcDone /\ failed[1] # {}) =>
          \A s \in Stores \ failed[1] : Asked(1, s) /\ Diffed(1, s)

\* the Epic request of a run failed; the run has inserted GOG's free offer
\* and sent the batch to a subscriber
C11_Witness ==
    /\ pc[1] = PcDone /\ failed[1] = {"epic"}
    /\ <<"gog", Str(GogFree.id)>> \in written[1]
    /\ Len(attempts[1]) >= 1
    /\ cpc = <<"done">> /\ "steam" \in cfail /\ reply["epic"] # {}

\* the element x of the list of source s raises inside the adapter's loop
Raises(s, x) ==
    IF s = "steam" THEN SteamRaises(x)
    ELSE IF s = "epic" THEN EpicRaises(x) ELSE GogRaises(x)

\* the elements of a list of source s that do not raise, in their order
WellFormed(s, items) ==
    LET Good(x) == ~Raises(s, x) IN SelectSeq(items, Good)

\* the adapter of source s has returned from a request that did not fail
Fetched_ok(s) == s \in cfetch \ cfail /\ cpc # <<"fetch", s>>

\* C12, as claimed: the list an adapter returns from a request that did not
\* fail is the normalization of all the elements that do not raise, those
\* after an element that raises included
C12_Isolated ==
    \A s \in Range(Sources) :
        Fetched_ok(s) => found[s] = NormalizeAny(s, WellFormed(s, upstream[s]))

\* the discount strings of the claim
ClaimedFree == {S_0, S_000, S_Free, S_FREE, S_D0}
ClaimedPaid == {<<"$","1","9",".","9","9">>}

\* C13, as claimed: once a run has returned, every offer it held, of Epic or
\* of GOG, whose discount string is "0", "0.00", "Free", "FREE" or "$0" has
\* been taken as free and is in the Ledger, and none priced "$19.99" is
C13_Uniform ==
    \A r \in RunIds : pc[r] = PcDone =>
        \A store \in Stores : \A i \in 1..Len(offers[r][store]) :
            LET g == offers[r][store][i]
                key == <<store, SaveId(store, g)>>
            IN  /\ g.discount_price \in ClaimedFree =>
                      IsFree(store, g.discount_price) /\ key \in DOMAIN last_offers
                /\ g.discount_price \in ClaimedPaid =>
                      ~IsFree(store, g.discount_price) /\ key \notin DOMAIN last_offers

\* C14: a run calls send_message only with a batch that is not empty and
\* only for subscribers it has loaded; a run that has returned with a batch
\* and no subscriber loaded has made no call, and its inserts are in the Ledger
C14_SendGuard ==
    \A r \in RunIds :
        /\ attempts[r] # <<>> =>
              /\ new_messages[r] # <<>>
              /\ subs[r] # <<>>
              /\ Attempted(r) \subseteq Range(subs[r])
        /\ (pc[r] = PcDone /\ new_messages[r] # <<>> /\ subs[r] = <<>>) =>
              /\ attempts[r] = <<>>
              /\ written[r] \subseteq DOMAIN last_offers

\* a run has returned with a batch, found no subscriber, and its insert stays
C14_Witness ==
    /\ pc[1] = PcDone /\ new_messages[1] # <<>> /\ subs[1] = <<>>
    /\ written[1] # {} /\ attempts[1] = <<>>
    /\ DOMAIN subscribers = {}

\* the adapter of source s has been entered in this call: it has sent its
\* request or has returned a list from the cache
Entered(s) == s \in cfetch \/ found[s] # <<>>

\* C15, as claimed: while the request of one adapter of a /compare is
\* outstanding the other two adapters have been entered as well, so that no
\* adapter waits for another to return before it starts
C15_Concurrent ==
    \A s \in Range(Sources) :
        cpc = <<"fetch", s>> => \A t \in Range(Sources) : Entered(t)

\* q is in title, the case of the letters apart
InTitle(title, q) ==
    \E i \in 0..(Len(title) - Len(q)) :
        \A j \in 1..Len(q) : UpperChar(title[i + j]) = UpperChar(q[j])

\* the positions of list_ whose title is not empty and holds q
Matches(list_, q) ==
    {i \in 1..Len(list_) : list_[i].title # <<>> /\ InTitle(list_[i].title, q)}

\* C16: in the reply of a /compare, Epic's and GOG's offer is the first of
\* the adapter's list whose title is not empty and holds the query, the case
\* of the letters apart, and none if there is no such; Steam's is the first
\* of the adapter's list, and none if the list is empty
C16_Matching ==
    cpc = <<"done">> =>
        /\ \A s \in {"epic", "gog"} :
              LET m == Matches(found[s], query)
              IN  reply[s] = IF m = {} THEN {}
                             ELSE {found[s][CHOOSE i \in m : \A k \in m : i <= k]}
        /\ reply["steam"] = IF found["steam"] = <<>> THEN {} ELSE {found["steam"][1]}

\* two of Epic's three titles hold the query, in another case: the reply has
\* the first of them; GOG has offers and none matches; Steam found nothing
C16_Witness ==
    /\ cpc = <<"done">> /\ cfail = {}
    /\ Len(found["epic"]) = 3
    /\ Cardinality(Matches(found["epic"], query)) = 2
    /\ reply["epic"] = {found["epic"][2]}
    /\ found["gog"] # <<>> /\ reply["gog"] = {}
    /\ found["steam"] = <<>> /\ reply["steam"] = {}

\* C17, as claimed: in the list get_steam_games returns from a request that
\* did not fail, the offer of an item that has is_free set, or that has no
\* price, has the discount price "Free"
C17_FreeMarker ==
    (Fetched_ok("steam") /\ WellFormed("steam", upstream["steam"]) = upstream["steam"]) =>
        \A i \in 1..Len(found["steam"]) :
            LET it == upstream["steam"][i]
            IN  (it.is_free \/ it.price = "missing") =>
                    found["steam"][i].discount_price = S_Free

\* C18: every entry of the cache is the pair (expiry, payload) of the last
\* cache_set of its key, whichever adapter calls overlapped, and cache_get
\* gives that payload when the entry has not expired and None when it has
C18_LastWriteWins ==
    \A k \in DOMAIN CACHE :
        /\ k \in DOMAIN lastPut
        /\ CACHE[k] = [expires |-> lastPut[k].time + lastPut[k].ttl,
                       data |-> lastPut[k].data]
        /\ cache_get(CACHE, k, now) =
              IF now > CACHE[k].expires THEN None ELSE Some(lastPut[k].data)

\* get_epic_games of the job and of /compare have both found no entry and
\* sent a request; each has returned another list, and the entry is the one
\* /compare has put last.  (No clock step is taken in SpecBoth: had either
\* put come before the other's read, that read would have been a hit.)
C18_Witness ==
    /\ "epic" \in cfetch \ cfail /\ cpc # <<"fetch", "epic">>
    /\ "epic" \notin failed[1]
    /\ pc[1] \notin {PcIdle, <<"get", "epic">>, <<"fetch", "epic">>}
    /\ offers[1].epic # <<>> /\ found["epic"] # <<>>
    /\ offers[1].epic # found["epic"]
    /\ CacheKey("epic") \in DOMAIN CACHE
    /\ CACHE[CacheKey("epic")].data = found["epic"]

\* compare_command has read the cache for source s in this call
Passed(s) ==
    \/ cpc = <<"fetch", s>>
    \/ cpc = <<"done">>
    \/ cpc[1] = "get" /\ \E i, j \in 1..Len(Sources) :
                            Sources[i] = s /\ Sources[j] = cpc[2] /\ i < j

\* C19: the step in which the request of an adapter fails leaves the cache
\* as it is, for every key; and in the call after one in which the request of
\* a source failed, the adapter of that source sends a request again
C19_NotCached ==
    [][/\ (cfail' \ cfail # {}) => CACHE' = CACHE
       /\ \A s \in prevFail' : Passed(s)' => s \in cfetch']_vars

\* Steam's request failed in the first /compare; the second, at the same
\* instant, has sent another and has Steam's result
C19_Witness ==
    /\ calls = 2 /\ now = 0 /\ cpc = <<"done">>
    /\ "steam" \in prevFail /\ "steam" \in cfetch \ cfail
    /\ found["steam"] # <<>>
    /\ SteamKey(query, COMPARE_LIMIT) \in DOMAIN CACHE

\* C20: subs of a run is written once, by the list_subscribers that follows
\* all its inserts and comes before its first send_message, and is the table
\* of that moment; whatever subscribe and unsubscribe do to the table after
\* it, the run sends to the chats of subs, in their order, to all of them
\* once it has returned, and no later run appends a notice of the same key
C20_Snapshot ==
    [][\A r \in RunIds :
        /\ (subs'[r] # subs[r] /\ subs'[r] # <<>>) =>
              /\ pc[r] = <<"list_subs">>
              /\ subs'[r] = list_subscribers(subscribers)
              /\ attempts[r] = <<>>
              /\ written'[r] = written[r]
        /\ (subs'[r] # <<>> /\ written'[r] # written[r]) => written'[r] = {}
        /\ Len(attempts'[r]) <= Len(subs'[r])
        /\ \A i \in 1..Len(attempts'[r]) : attempts'[r][i].chat_id = subs'[r][i]
        /\ (pc'[r] = PcDone /\ new_messages'[r] # <<>>) =>
              Len(attempts'[r]) = Len(subs'[r])
        /\ \A k \in DOMAIN batchCount' : batchCount'[k] <= 1]_vars

\* a run has returned: chat 1, read into subs, has unsubscribed since the
\* read and has been sent the batch; chat 2 has subscribed since the read
\* and has not
C20_Witness ==
    /\ pc[1] = PcDone /\ subs[1] = <<1>>
    /\ Attempted(1) = {1}
    /\ DOMAIN subscribers = {2}
    /\ written[1] # {}

=============================================================================
